---- MODULE Spec2Model ----
(***************************************************************************)
(* Co-occurrence graph builder (src/src/graph_builder.py) and metrics      *)
(* engine (src/src/metrics.py) of FedeGG09/grafos, with the guard of the   *)
(* dashboard button that calls them (src/streamlit_app.py).                *)
(*                                                                         *)
(* A table is a sequence of rows; a row maps every column to a value.  A   *)
(* value is a record [kind, i, f, s]: an int i, a float i.f (one decimal), *)
(* a string s, or the missing marker NaN.  The graph G is a sequence of    *)
(* node records in insertion order, each with its adjacency list in        *)
(* insertion order, as networkx keeps them.                                *)
(***************************************************************************)
EXTENDS Integers, Sequences, FiniteSets, TLC

VARIABLES
    df,                  \* the table handed to build_cooccurrence_graph
    cols,                \* the selected fields, in order
    min_count,           \* the edge-weight floor
    G,                   \* the graph under construction / handed to the metrics
    ri,                  \* number of kept rows already processed by the row loop
    pc,                  \* position in the build or in compute_graph_metrics
    approx_betweenness,  \* compute_graph_metrics parameters
    bet_k,
    max_nodes_for_exact,
    n_nodes,             \* G.number_of_nodes() as read on entry
    k,                   \* number of betweenness sources chosen (None = exact)
    bet,                 \* betweenness result per node
    eig,                 \* eigenvector result per node
    node_community,      \* community id per node that received one
    comm_by,             \* the community strategy that completed, "" before
    nodes_df,            \* node rows returned
    edges_df,            \* edge rows returned
    err                  \* exception that left the call, "" when none

vars == <<df, cols, min_count, G, ri, pc, approx_betweenness, bet_k,
          max_nodes_for_exact, n_nodes, k, bet, eig, node_community, comm_by,
          nodes_df, edges_df, err>>

buildVars == <<df, cols, min_count>>
metricVars == <<approx_betweenness, bet_k, max_nodes_for_exact, n_nodes, k, bet, eig,
                node_community, comm_by, nodes_df, edges_df>>

(***************************************************************************)
(* Bounds of the model.                                                    *)
(***************************************************************************)
MaxRows == 2
MaxFields == 3

\* bet_k=None, k=None
None == -1

\* d.get("label"), d.get("column") of a node that has no such attribute
NoAttr == "None"

(***************************************************************************)
(* Values and their Python str().                                          *)
(***************************************************************************)
NaN == [kind |-> "nan", i |-> 0, f |-> 0, s |-> ""]
IntV(n) == [kind |-> "int", i |-> n, f |-> 0, s |-> ""]
FloatV(n, d) == [kind |-> "float", i |-> n, f |-> d, s |-> ""]
StrV(t) == [kind |-> "str", i |-> 0, f |-> 0, s |-> t]

notna(v) == v.kind # "nan"

str(v) ==
    CASE v.kind = "int" -> ToString(v.i)
      [] v.kind = "float" -> ToString(v.i) \o "." \o ToString(v.f)
      [] v.kind = "str" -> v.s
      [] OTHER -> "nan"

\* f"{col}::" + str(val)
node_id(col, val) == col \o "::" \o str(val)

(***************************************************************************)
(* The tables and field lists the model draws its inputs from.  Column     *)
(* names and cell values are free text in a CSV; "a::b" is a column whose  *)
(* name holds the separator, "n" an integer column, "x" a float column.    *)
(***************************************************************************)
Columns == {"a", "a::b", "n", "x"}

Cells(c) ==
    CASE c = "a" -> {StrV("b::c"), NaN}
      [] c = "a::b" -> {StrV("c"), NaN}
      [] c = "n" -> {IntV(1)}
      [] c = "x" -> {FloatV(0, 5), NaN}

AllCells == UNION {Cells(c) : c \in Columns}

RowSet == {r \in [Columns -> AllCells] : \A c \in Columns : r[c] \in Cells(c)}

Tables == UNION {[1..n -> RowSet] : n \in 0..MaxRows}

Distinct(s) == \A i, j \in DOMAIN s : i # j => s[i] # s[j]

FieldLists ==
    {s \in UNION {[1..n -> Columns] : n \in 0..MaxFields} : Distinct(s)}

MinCounts == 1..(MaxRows + 1)

(***************************************************************************)
(* pandas: the dtype of a column, and the dtype of the rows iterrows()     *)
(* yields for df[cols] (one Series per row, holding the common dtype).     *)
(***************************************************************************)
ColumnDtype(t, c) ==
    LET vals == {t[r][c] : r \in DOMAIN t} IN
    IF vals = {} \/ \E v \in vals : v.kind = "str" THEN "object"
    ELSE IF \E v \in vals : v.kind \in {"float", "nan"} THEN "float64"
    ELSE "int64"

RowDtype(t, cs) ==
    LET dts == {ColumnDtype(t, cs[j]) : j \in DOMAIN cs} IN
    IF "object" \in dts \/ dts = {} THEN "object"
    ELSE IF dts = {"int64"} THEN "int64"
    ELSE "float64"

Upcast(v, dt) ==
    IF dt = "float64" /\ v.kind = "int" THEN FloatV(v.i, 0) ELSE v

\* row[c] of the Series iterrows() yields for row r of df[cols]
RowValue(t, cs, r, c) == Upcast(t[r][c], RowDtype(t, cs))

\* df[col].dropna().unique(), in order of first appearance
RECURSIVE UniqueFrom(_, _, _, _)
UniqueFrom(t, c, r, acc) ==
    IF r > Len(t) THEN acc
    ELSE LET v == t[r][c] IN
         IF notna(v) /\ ~\E j \in DOMAIN acc : acc[j] = v
         THEN UniqueFrom(t, c, r + 1, Append(acc, v))
         ELSE UniqueFrom(t, c, r + 1, acc)

unique_vals(t, c) == UniqueFrom(t, c, 1, <<>>)

\* df[cols].dropna(how="all"): the indices of the rows that are kept
RECURSIVE KeptFrom(_, _, _)
KeptFrom(t, cs, r) ==
    IF r > Len(t) THEN <<>>
    ELSE IF \E j \in DOMAIN cs : notna(t[r][cs[j]])
         THEN <<r>> \o KeptFrom(t, cs, r + 1)
         ELSE KeptFrom(t, cs, r + 1)

\* a row selection that starts at the second row
KeptRows_from_second(t, cs) == KeptFrom(t, cs, 2)

KeptRows(t, cs) == KeptFrom(t, cs, 1)

(***************************************************************************)
(* networkx.Graph: nodes in insertion order, each with its attributes and  *)
(* its adjacency list in insertion order.  An edge is held at both of its  *)
(* ends (once, for a self-loop) with the same weight.                      *)
(***************************************************************************)
NodeIds(g) == {g[i].id : i \in DOMAIN g}

IndexOf(g, u) == CHOOSE i \in DOMAIN g : g[i].id = u

\* G.add_node(u, label=..., column=...): a new node, or new attributes on an old one
add_node(g, u, label, column) ==
    IF u \in NodeIds(g)
    THEN [g EXCEPT ![IndexOf(g, u)] =
              [@ EXCEPT !.label = label, !.column = column, !.attrs = TRUE]]
    ELSE Append(g, [id |-> u, label |-> label, column |-> column,
                    attrs |-> TRUE, adj |-> <<>>])

\* the node add_edge creates for an endpoint the graph does not hold yet
implicit_node(g, u) ==
    IF u \in NodeIds(g) THEN g
    ELSE Append(g, [id |-> u, label |-> NoAttr, column |-> NoAttr,
                    attrs |-> FALSE, adj |-> <<>>])

has_edge(g, u, v) ==
    /\ u \in NodeIds(g)
    /\ \E j \in DOMAIN g[IndexOf(g, u)].adj : g[IndexOf(g, u)].adj[j].nbr = v

edge_weight(g, u, v) ==
    LET a == g[IndexOf(g, u)].adj IN
    a[CHOOSE j \in DOMAIN a : a[j].nbr = v].weight

set_adj(a, v, w) ==
    IF \E j \in DOMAIN a : a[j].nbr = v
    THEN [j \in DOMAIN a |-> IF a[j].nbr = v THEN [nbr |-> v, weight |-> w] ELSE a[j]]
    ELSE Append(a, [nbr |-> v, weight |-> w])

\* G.add_edge(u, v, weight=w), also the effect of G[u][v]["weight"] = w
add_edge(g, u, v, w) ==
    LET g1 == implicit_node(implicit_node(g, u), v)
        g2 == [g1 EXCEPT ![IndexOf(g1, u)].adj = set_adj(@, v, w)]
    IN [g2 EXCEPT ![IndexOf(g2, v)].adj = set_adj(@, u, w)]

\* G.edges(data=True): every edge once, from its first endpoint in node order
RECURSIVE EdgesFrom(_, _, _)
EdgesFrom(g, n, j) ==
    IF n > Len(g) THEN <<>>
    ELSE IF j > Len(g[n].adj) THEN EdgesFrom(g, n + 1, 1)
    ELSE LET e == g[n].adj[j] IN
         IF \E m \in 1..(n - 1) : g[m].id = e.nbr
         THEN EdgesFrom(g, n, j + 1)
         ELSE <<[u |-> g[n].id, v |-> e.nbr, weight |-> e.weight]>>
              \o EdgesFrom(g, n, j + 1)

Edges(g) == EdgesFrom(g, 1, 1)

number_of_nodes(g) == Len(g)

\* G.degree(): a self-loop counts twice
degree_of(g, n) ==
    LET a == g[n].adj IN
    Len(a) + Cardinality({j \in DOMAIN a : a[j].nbr = g[n].id})

RECURSIVE SumWeights(_, _, _)
SumWeights(a, self, j) ==
    IF j > Len(a) THEN 0
    ELSE (IF a[j].nbr = self THEN 2 * a[j].weight ELSE a[j].weight)
         + SumWeights(a, self, j + 1)

\* G.degree(weight="weight")
degree_w_of(g, n) == SumWeights(g[n].adj, g[n].id, 1)

(***************************************************************************)
(* build_cooccurrence_graph, loop by loop.                                 *)
(***************************************************************************)
\* lines 24-27: one node per column and distinct non-missing value
RECURSIVE AddValueNodes(_, _, _, _)
AddValueNodes(g, c, vals, j) ==
    IF j > Len(vals) THEN g
    ELSE AddValueNodes(add_node(g, node_id(c, vals[j]), str(vals[j]), c), c, vals, j + 1)

RECURSIVE AddColumnNodes(_, _, _, _)
AddColumnNodes(g, t, cs, j) ==
    IF j > Len(cs) THEN g
    ELSE AddColumnNodes(AddValueNodes(g, cs[j], unique_vals(t, cs[j]), 1), t, cs, j + 1)

\* a node loop that walks the columns of the table instead of the selected ones
add_all_nodes_of_table(g, t, cs) ==
    AddColumnNodes(g, t, <<"a", "a::b", "n", "x">>, 1)

\* lines 24-27
add_all_nodes(g, t, cs) == AddColumnNodes(g, t, cs, 1)

\* line 31: items = [(c, row[c]) for c in cols if pd.notna(row[c])]
RECURSIVE ItemsFrom(_, _, _, _)
ItemsFrom(t, cs, r, j) ==
    IF j > Len(cs) THEN <<>>
    ELSE LET v == RowValue(t, cs, r, cs[j]) IN
         IF notna(v) THEN <<[c |-> cs[j], v |-> v]>> \o ItemsFrom(t, cs, r, j + 1)
         ELSE ItemsFrom(t, cs, r, j + 1)

row_items(t, cs, r) == ItemsFrom(t, cs, r, 1)

\* lines 33-38: increment the weight of an edge, or create it with weight 1
upsert_edge(g, u, v) ==
    IF has_edge(g, u, v) THEN add_edge(g, u, v, edge_weight(g, u, v) + 1)
    ELSE add_edge(g, u, v, 1)

\* line 32: combinations(items, 2), in order
RECURSIVE PairLoop(_, _, _, _)
PairLoop(g, items, i, j) ==
    IF i >= Len(items) THEN g
    ELSE IF j > Len(items) THEN PairLoop(g, items, i + 1, i + 2)
    ELSE PairLoop(upsert_edge(g, node_id(items[i].c, items[i].v),
                                 node_id(items[j].c, items[j].v)),
                  items, i, j + 1)

process_row(g, t, cs, r) == PairLoop(g, row_items(t, cs, r), 1, 2)

\* an edge filter that also drops the edges whose weight equals the floor
remove_low_edges_at_floor(g, m) ==
    [n \in DOMAIN g |->
        [g[n] EXCEPT !.adj = SelectSeq(@, LAMBDA e : ~(e.weight <= m))]]

\* lines 42-43: drop the edges whose weight is below the floor
remove_low_edges(g, m) ==
    [n \in DOMAIN g |->
        [g[n] EXCEPT !.adj = SelectSeq(@, LAMBDA e : ~(e.weight < m))]]

\* nx.isolates(G): the nodes of degree 0
isolates(g) == {g[n].id : n \in {m \in DOMAIN g : degree_of(g, m) = 0}}

\* G.remove_nodes_from(isolated)
remove_nodes_from(g, ids) ==
    LET keep == SelectSeq(g, LAMBDA nd : nd.id \notin ids) IN
    [n \in DOMAIN keep |->
        [keep[n] EXCEPT !.adj = SelectSeq(@, LAMBDA e : e.nbr \notin ids)]]

\* a post-pass that looks for the isolated nodes before it drops the edges
filter_min_count_isolates_first(g, m) ==
    IF m > 1
    THEN remove_low_edges(remove_nodes_from(g, isolates(g)), m)
    ELSE g

\* lines 41-47
filter_min_count(g, m) ==
    IF m > 1
    THEN LET g1 == remove_low_edges(g, m) IN remove_nodes_from(g1, isolates(g1))
    ELSE g

\* lines 30-38: the row loop over the kept rows, from the j-th on
RECURSIVE RowLoop(_, _, _, _, _)
RowLoop(g, t, cs, kept, j) ==
    IF j > Len(kept) THEN g
    ELSE RowLoop(process_row(g, t, cs, kept[j]), t, cs, kept, j + 1)

\* lines 15-49: the whole call, the composition of the steps above
build_cooccurrence_graph(t, cs, m) ==
    filter_min_count(RowLoop(add_all_nodes(<<>>, t, cs), t, cs, KeptRows(t, cs), 1), m)

(***************************************************************************)
(* State machine of one request.                                           *)
(***************************************************************************)
NoMetrics ==
    /\ approx_betweenness = FALSE
    /\ bet_k = None
    /\ max_nodes_for_exact = 0
    /\ n_nodes = 0
    /\ k = None
    /\ bet = <<>>
    /\ eig = <<>>
    /\ node_community = {}
    /\ comm_by = ""
    /\ nodes_df = <<>>
    /\ edges_df = <<>>

Init ==
    /\ df \in Tables
    /\ cols \in FieldLists
    /\ min_count \in MinCounts
    /\ G = <<>>
    /\ ri = 0
    /\ pc = "start"
    /\ err = ""
    /\ NoMetrics

\* streamlit_app.py: the button handler refuses an empty selection and builds nothing
AppRejectsEmptySelection ==
    /\ pc = "start"
    /\ cols = <<>>
    /\ min_count = 1
    /\ pc' = "app_error"
    /\ UNCHANGED <<G, ri, err>>
    /\ UNCHANGED buildVars
    /\ UNCHANGED metricVars

\* build_cooccurrence_graph is entered (by the button handler, or called directly)
BuildCall ==
    /\ pc = "start"
    /\ G' = <<>>
    /\ pc' = "nodes"
    /\ UNCHANGED <<ri, err>>
    /\ UNCHANGED buildVars
    /\ UNCHANGED metricVars

AddNodes ==
    /\ pc = "nodes"
    /\ G' = add_all_nodes(G, df, cols)
    /\ ri' = 0
    /\ pc' = "rows"
    /\ UNCHANGED err
    /\ UNCHANGED buildVars
    /\ UNCHANGED metricVars

ProcessRow ==
    /\ pc = "rows"
    /\ ri < Len(KeptRows(df, cols))
    /\ G' = process_row(G, df, cols, KeptRows(df, cols)[ri + 1])
    /\ ri' = ri + 1
    /\ UNCHANGED <<pc, err>>
    /\ UNCHANGED buildVars
    /\ UNCHANGED metricVars

FilterAndReturn ==
    /\ pc = "rows"
    /\ ri = Len(KeptRows(df, cols))
    /\ G' = filter_min_count(G, min_count)
    /\ pc' = "built"
    /\ UNCHANGED <<ri, err>>
    /\ UNCHANGED buildVars
    /\ UNCHANGED metricVars

Next ==
    \/ AppRejectsEmptySelection
    \/ BuildCall
    \/ AddNodes
    \/ ProcessRow
    \/ FilterAndReturn

Spec == Init /\ [][Next]_vars

(***************************************************************************)
(* compute_graph_metrics.                                                  *)
(*                                                                         *)
(* Scores that come out of a numerical library are kept as tokens: "0.0"   *)
(* and "1.0" are those values, "exact" and "sampled" a Brandes score,      *)
(* "eigs" an ARPACK score, "power" a power-iteration score.  A partition   *)
(* returned by a community library is taken to be the connected components *)
(* of the graph that library was given, numbered from 0 in node order.     *)
(***************************************************************************)
Min(a, b) == IF a < b THEN a ELSE b
Max(a, b) == IF a > b THEN a ELSE b

\* int(math.sqrt(n) * 10) for the n the model uses
IntSqrtTimes10(n) == CHOOSE r \in 0..(10 * n + 10) : r * r <= 100 * n /\ 100 * n < (r + 1) * (r + 1)

\* a choice that samples already at the threshold
betweenness_sources_at_threshold(sample, approx, n, threshold) ==
    IF sample = None
    THEN IF approx /\ n >= threshold
         THEN Min(500, Max(50, IntSqrtTimes10(n)))
         ELSE None
    ELSE sample

\* lines 39-45: the number of betweenness sources, None for the exact computation
betweenness_sources(sample, approx, n, threshold) ==
    IF sample = None
    THEN IF approx /\ n > threshold
         THEN Min(500, Max(50, IntSqrtTimes10(n)))
         ELSE None
    ELSE sample

\* nx.betweenness_centrality(G, weight="weight"): no node lies between two others
\* in a graph of at most two nodes
ExactBetweenness(g) == [n \in DOMAIN g |-> IF Len(g) <= 2 THEN "0.0" ELSE "exact"]

SampledBetweenness(g) == [n \in DOMAIN g |-> IF Len(g) <= 2 THEN "0.0" ELSE "sampled"]

\* lines 63-75: the sparse branch; eigs(A, k=1) refuses a matrix of order 2
SparseEigen(g) ==
    IF Len(g) = 1 THEN <<"1.0">> ELSE [n \in DOMAIN g |-> "eigs"]

\* line 79: nx.eigenvector_centrality(G, max_iter=200)
PowerEigen(g) ==
    IF Len(g) = 1 THEN <<"1.0">> ELSE [n \in DOMAIN g |-> "power"]

\* line 81
ZeroEigen(g) == [n \in DOMAIN g |-> "0.0"]

\* connected components, for the partition a community library returns
Step(g, S) ==
    S \cup {IndexOf(g, g[n[1]].adj[n[2]].nbr) :
               n \in {x \in S \X (1..Len(g)) : x[2] \in DOMAIN g[x[1]].adj}}

RECURSIVE Reach(_, _)
Reach(g, S) == IF Step(g, S) = S THEN S ELSE Reach(g, Step(g, S))

SetMin(S) == CHOOSE x \in S : \A y \in S : x <= y

ComponentOf(g, n) == SetMin(Reach(g, {n}))

\* the community id of vertex n when the library was given the vertices V
PartitionId(g, V, n) ==
    Cardinality({c \in {ComponentOf(g, m) : m \in V} : c < ComponentOf(g, n)})

\* lines 87-91: ig.Graph(edges=edges) has as many vertices as the largest endpoint
\* index plus one
IgraphVertices(g) ==
    LET ends == {IndexOf(g, Edges(g)[j].u) : j \in DOMAIN Edges(g)}
                \cup {IndexOf(g, Edges(g)[j].v) : j \in DOMAIN Edges(g)}
    IN IF ends = {} THEN {} ELSE 1..(CHOOSE x \in ends : \A y \in ends : y <= x)

\* lines 94-97
IgraphCommunities(g) ==
    {[node |-> g[n].id, cid |-> PartitionId(g, IgraphVertices(g), n)] :
        n \in IgraphVertices(g)}

\* lines 101-102 and 106-109: these libraries are given G itself
WholeGraphCommunities(g) ==
    {[node |-> g[n].id, cid |-> PartitionId(g, DOMAIN g, n)] : n \in DOMAIN g}

\* line 111
UndeterminedCommunities(g) == {[node |-> g[n].id, cid |-> -1] : n \in DOMAIN g}

\* node_community.get(n, -1)
community_get(nc, u) ==
    IF \E r \in nc : r.node = u THEN (CHOOSE r \in nc : r.node = u).cid ELSE -1

\* lines 33-36: degree / (n_nodes - 1) as a fraction, 0.0 when n_nodes <= 1
degree_centrality_of(g, n) ==
    IF Len(g) > 1 THEN <<degree_of(g, n), Len(g) - 1>> ELSE <<0, 1>>

\* lines 114-126
nodes_data(g, b, e, nc) ==
    [n \in DOMAIN g |->
        [node_id |-> g[n].id,
         label |-> g[n].label,
         column |-> g[n].column,
         degree |-> degree_of(g, n),
         degree_weighted |-> degree_w_of(g, n),
         degree_centrality |-> degree_centrality_of(g, n),
         betweenness |-> b[n],
         eigenvector |-> e[n],
         community |-> community_get(nc, g[n].id)]]

\* line 129
edges_data(g) == Edges(g)

\* DataFrame.sort_values(key, ascending=False) with the default sort kind: the
\* orders in which the keys do not increase; which one, when keys are equal, is
\* up to the numpy build
DescendingOrders(keys) ==
    {p \in Permutations(DOMAIN keys) :
        \A i, j \in DOMAIN keys : i < j => keys[p[i]] >= keys[p[j]]}

Reorder(rows, p) == [i \in DOMAIN rows |-> rows[p[i]]]

KeysDegreeWeighted(rows) == [i \in DOMAIN rows |-> rows[i].degree_weighted]
KeysWeight(rows) == [i \in DOMAIN rows |-> rows[i].weight]

(***************************************************************************)
(* Graphs and parameters compute_graph_metrics is called with.             *)
(***************************************************************************)
MaxNodes == 3

Weights == {1, 2}

NodeName(i) == "n" \o ToString(i)

PairsOf(n) == {p \in (1..n) \X (1..n) : p[1] < p[2]}

RECURSIVE AddPoolEdges(_, _, _, _)
AddPoolEdges(g, w, i, j) ==
    IF i >= Len(g) THEN g
    ELSE IF j > Len(g) THEN AddPoolEdges(g, w, i + 1, i + 2)
    ELSE AddPoolEdges(IF w[<<i, j>>] > 0 THEN add_edge(g, g[i].id, g[j].id, w[<<i, j>>])
                      ELSE g,
                      w, i, j + 1)

PoolNodes(n) ==
    [i \in 1..n |-> [id |-> NodeName(i), label |-> ToString(i), column |-> "n",
                     attrs |-> TRUE, adj |-> <<>>]]

GraphPool ==
    UNION {{AddPoolEdges(PoolNodes(n), w, 1, 2) : w \in [PairsOf(n) -> Weights \cup {0}]} :
              n \in 0..MaxNodes}

SampleSizes == {None, 2, 50}
ExactThresholds == {2, 2000}

InitMetrics ==
    /\ df = <<>>
    /\ cols = <<>>
    /\ min_count = 1
    /\ ri = 0
    /\ G \in GraphPool
    /\ approx_betweenness \in BOOLEAN
    /\ bet_k \in SampleSizes
    /\ max_nodes_for_exact \in ExactThresholds
    /\ n_nodes = number_of_nodes(G)
    /\ k = None
    /\ bet = <<>>
    /\ eig = <<>>
    /\ node_community = {}
    /\ comm_by = ""
    /\ nodes_df = <<>>
    /\ edges_df = <<>>
    /\ err = ""
    /\ pc = "betweenness"

\* lines 39-56.  random.sample raises ValueError for more sources than nodes, and
\* only TypeError (a networkx without the seed argument) is caught
Betweenness ==
    /\ pc = "betweenness"
    /\ k' = betweenness_sources(bet_k, approx_betweenness, n_nodes, max_nodes_for_exact)
    /\ \/ /\ k' = None
          /\ bet' = ExactBetweenness(G)
          /\ pc' = "eigenvector"
          /\ err' = err
       \/ /\ k' # None
          /\ k' <= n_nodes
          /\ bet' = SampledBetweenness(G)
          /\ pc' = "eigenvector"
          /\ err' = err
       \/ /\ k' # None
          /\ k' > n_nodes
          /\ bet' = bet
          /\ pc' = "raised"
          /\ err' = "ValueError"
       \/ /\ k' # None
          /\ bet' = ExactBetweenness(G)
          /\ pc' = "eigenvector"
          /\ err' = err
    /\ UNCHANGED <<G, ri, approx_betweenness, bet_k, max_nodes_for_exact, n_nodes,
                   eig, node_community, comm_by, nodes_df, edges_df>>
    /\ UNCHANGED buildVars

\* lines 58-81: sparse solver, else power iteration, else zeros; every failure is
\* caught.  The sparse branch, when scipy and the conversion are there, answers a
\* one-node graph itself and reaches ARPACK from three nodes on; power iteration
\* can fail to converge from two nodes on
Eigenvector ==
    /\ pc = "eigenvector"
    /\ \/ /\ Len(G) = 1 \/ Len(G) >= 3
          /\ eig' = SparseEigen(G)
       \/ /\ Len(G) >= 1
          /\ eig' = PowerEigen(G)
       \/ /\ Len(G) # 1
          /\ eig' = ZeroEigen(G)
    /\ pc' = "communities"
    /\ UNCHANGED <<G, ri, approx_betweenness, bet_k, max_nodes_for_exact, n_nodes, k,
                   bet, node_community, comm_by, nodes_df, edges_df, err>>
    /\ UNCHANGED buildVars

\* lines 83-111: igraph, else python-louvain, else networkx greedy, else -1; a
\* strategy is left only by an exception, and every exception is caught
Communities ==
    /\ pc = "communities"
    /\ \/ /\ node_community' = IgraphCommunities(G)
          /\ comm_by' = "igraph"
       \/ /\ node_community' = WholeGraphCommunities(G)
          /\ comm_by' = "louvain"
       \/ /\ node_community' = WholeGraphCommunities(G)
          /\ comm_by' = "greedy"
       \/ /\ node_community' = UndeterminedCommunities(G)
          /\ comm_by' = "none"
    /\ pc' = "assembly"
    /\ UNCHANGED <<G, ri, approx_betweenness, bet_k, max_nodes_for_exact, n_nodes, k,
                   bet, eig, nodes_df, edges_df, err>>
    /\ UNCHANGED buildVars

\* lines 113-132: sort_values raises KeyError on the frame built from an empty
\* list, which has no columns
Assembly ==
    /\ pc = "assembly"
    /\ \/ /\ nodes_data(G, bet, eig, node_community) = <<>>
          /\ err' = "KeyError"
          /\ pc' = "raised"
          /\ UNCHANGED <<nodes_df, edges_df>>
       \/ /\ nodes_data(G, bet, eig, node_community) # <<>>
          /\ edges_data(G) = <<>>
          /\ err' = "KeyError"
          /\ pc' = "raised"
          /\ UNCHANGED <<nodes_df, edges_df>>
       \/ /\ nodes_data(G, bet, eig, node_community) # <<>>
          /\ edges_data(G) # <<>>
          /\ \E p \in DescendingOrders(
                        KeysDegreeWeighted(nodes_data(G, bet, eig, node_community))) :
                nodes_df' = Reorder(nodes_data(G, bet, eig, node_community), p)
          /\ \E p \in DescendingOrders(KeysWeight(edges_data(G))) :
                edges_df' = Reorder(edges_data(G), p)
          /\ pc' = "returned"
          /\ err' = err
    /\ UNCHANGED <<G, ri, approx_betweenness, bet_k, max_nodes_for_exact, n_nodes, k,
                   bet, eig, node_community, comm_by>>
    /\ UNCHANGED buildVars

NextMetrics ==
    \/ Betweenness
    \/ Eigenvector
    \/ Communities
    \/ Assembly

SpecMetrics == InitMetrics /\ [][NextMetrics]_vars

(***************************************************************************)
(* The choice of the betweenness sources alone, over node counts no small  *)
(* graph reaches.                                                          *)
(***************************************************************************)
NodeCounts == {0, 1, 2, 24, 25, 26, 30, 99, 100, 101, 2000, 2001, 2499, 2500, 2501, 3000}
ThresholdsForChoice == {0, 25, 100, 2000}
SampleSizesForChoice == {None, 1, 10, 700}

InitSources ==
    /\ df = <<>>
    /\ cols = <<>>
    /\ min_count = 1
    /\ ri = 0
    /\ G = <<>>
    /\ approx_betweenness \in BOOLEAN
    /\ bet_k \in SampleSizesForChoice
    /\ max_nodes_for_exact \in ThresholdsForChoice
    /\ n_nodes \in NodeCounts
    /\ k = None
    /\ bet = <<>>
    /\ eig = <<>>
    /\ node_community = {}
    /\ comm_by = ""
    /\ nodes_df = <<>>
    /\ edges_df = <<>>
    /\ err = ""
    /\ pc = "sources"

ChooseSources ==
    /\ pc = "sources"
    /\ k' = betweenness_sources(bet_k, approx_betweenness, n_nodes, max_nodes_for_exact)
    /\ pc' = "sources_chosen"
    /\ UNCHANGED <<G, ri, approx_betweenness, bet_k, max_nodes_for_exact, n_nodes,
                   bet, eig, node_community, comm_by, nodes_df, edges_df, err>>
    /\ UNCHANGED buildVars

NextSources == ChooseSources

SpecSources == InitSources /\ [][NextSources]_vars

(***************************************************************************)
(* What the table says, independently of the graph: the (field, str(value))*)
(* pairs that occur, and the rows in which a pair occurs.                  *)
(***************************************************************************)
Fields(cs) == {cs[j] : j \in DOMAIN cs}

Observed(t, cs) ==
    {<<c, str(t[r][c])>> : <<r, c>> \in
        {rc \in (DOMAIN t) \X Fields(cs) : notna(t[rc[1]][rc[2]])}}

RowsWith(t, p) == {r \in DOMAIN t : notna(t[r][p[1]]) /\ str(t[r][p[1]]) = p[2]}

CoCount(t, p, q) == Cardinality(RowsWith(t, p) \cap RowsWith(t, q))

\* the node that stands for an observed pair
PairNode(p) == p[1] \o "::" \o p[2]

EdgeSet(g) ==
    {[ends |-> {Edges(g)[j].u, Edges(g)[j].v}, weight |-> Edges(g)[j].weight] :
        j \in DOMAIN Edges(g)}

(***************************************************************************)
(* C1: with min_count = 1 the built graph has an edge between the nodes of *)
(* two observed (field, value) pairs exactly when some row holds both, its *)
(* weight is the number of such rows, and it has no other edge.            *)
(***************************************************************************)
C1_EdgesAreCooccurrences ==
    (pc = "built" /\ min_count = 1) =>
        /\ \A p, q \in Observed(df, cols) :
              p # q =>
                 /\ has_edge(G, PairNode(p), PairNode(q)) <=> CoCount(df, p, q) > 0
                 /\ CoCount(df, p, q) > 0 =>
                        edge_weight(G, PairNode(p), PairNode(q)) = CoCount(df, p, q)
        /\ \A e \in EdgeSet(G) :
              \E p, q \in Observed(df, cols) :
                 p # q /\ e.ends = {PairNode(p), PairNode(q)}

(***************************************************************************)
(* C2: with min_count = 1 the nodes of the built graph are exactly the     *)
(* observed (field, str(value)) pairs: every node carries the field and    *)
(* value of an observed pair, and every observed pair has exactly one node.*)
(***************************************************************************)
C2_NodesAreObservedPairs ==
    (pc = "built" /\ min_count = 1) =>
        /\ \A n \in DOMAIN G :
              G[n].attrs /\ <<G[n].column, G[n].label>> \in Observed(df, cols)
        /\ \A p \in Observed(df, cols) :
              Cardinality({n \in DOMAIN G :
                  G[n].attrs /\ G[n].column = p[1] /\ G[n].label = p[2]}) = 1
        /\ \A n, m \in DOMAIN G : n # m => G[n].id # G[m].id

(***************************************************************************)
(* C3 as claimed: build never returns a graph for an empty fields list.    *)
(***************************************************************************)
C3_EmptyFieldsRejectedByBuild == cols = <<>> => pc # "built"

(***************************************************************************)
(* C3 as amended: an empty selection is refused by the button handler,     *)
(* which builds nothing; build itself, given an empty fields list, raises  *)
(* nothing and returns the empty graph whatever the table.                 *)
(***************************************************************************)
C3_EmptyFieldsGiveEmptyGraph ==
    /\ pc = "app_error" => (cols = <<>> /\ G = <<>>)
    /\ (cols = <<>> /\ pc \in {"nodes", "rows", "built"}) => (G = <<>> /\ err = "")

C3_Witness == cols = <<>> /\ pc = "built" /\ Len(df) = MaxRows /\ G = <<>>

(***************************************************************************)
(* C6: the filtering post-pass with a floor above 1 keeps exactly the      *)
(* accumulated edges whose weight reaches the floor and exactly the nodes  *)
(* that have such an edge.                                                 *)
(***************************************************************************)
FloorKept(g, m) == {e \in EdgeSet(g) : e.weight >= m}

C6_FilterKeepsExactlyTheFloor ==
    [][(pc = "rows" /\ pc' = "built" /\ min_count > 1) =>
          /\ EdgeSet(G') = FloorKept(G, min_count)
          /\ NodeIds(G') = UNION {e.ends : e \in FloorKept(G, min_count)}
          /\ \A n \in DOMAIN G' : degree_of(G', n) > 0
          /\ \A e \in EdgeSet(G') : e.weight >= min_count
          /\ (FloorKept(G, min_count) = {} => G' = <<>>)]_vars

C6_Witness ==
    /\ pc = "built"
    /\ min_count > 1
    /\ Edges(G) # <<>>
    /\ \E p \in Observed(df, cols) : PairNode(p) \notin NodeIds(G)

(***************************************************************************)
(* C10: no edge of the built graph joins a node to itself.                 *)
(***************************************************************************)
C10_NoSelfEdge ==
    pc = "built" => \A j \in DOMAIN Edges(G) : Edges(G)[j].u # Edges(G)[j].v

(***************************************************************************)
(* C4: compute_graph_metrics returns for every graph, the empty one and    *)
(* the edgeless ones included, with one node row per node and one edge row *)
(* per edge.  The ValueError of the sampled betweenness (C5) is not        *)
(* counted against this statement.                                         *)
(***************************************************************************)
C4_ComputeReturnsCompleteRows ==
    /\ pc = "raised" => err = "ValueError"
    /\ pc = "returned" =>
          /\ Len(nodes_df) = Len(G)
          /\ Len(edges_df) = Len(Edges(G))
          /\ \A n \in DOMAIN G :
                Cardinality({i \in DOMAIN nodes_df : nodes_df[i].node_id = G[n].id}) = 1

(***************************************************************************)
(* C5: no failure of the betweenness, eigenvector or community             *)
(* sub-computation leaves compute_graph_metrics: a sampled betweenness     *)
(* asked for more sources than there are nodes does not abort the call.    *)
(***************************************************************************)
C5_SubFailureDoesNotAbort ==
    (k # None /\ k > n_nodes) => ~(pc = "raised" /\ err = "ValueError")

(***************************************************************************)
(* C7 as claimed: a given sample size is used as is; otherwise a node      *)
(* count above the threshold gives clamp(50, sqrt(n) * 10, 500) sources    *)
(* and any other node count the exact computation; nothing else decides.   *)
(***************************************************************************)
IsClampedSqrt(r, n) ==
    /\ r \in 50..500
    /\ \/ 100 * n < 50 * 50 /\ r = 50
       \/ 100 * n >= 500 * 500 /\ r = 500
       \/ r * r <= 100 * n /\ 100 * n < (r + 1) * (r + 1)

C7_SourcesIgnoreApproxFlag ==
    pc = "sources_chosen" =>
        IF bet_k # None THEN k = bet_k
        ELSE IF n_nodes > max_nodes_for_exact THEN IsClampedSqrt(k, n_nodes)
        ELSE k = None

(***************************************************************************)
(* C7 as amended: a given sample size is used as is; otherwise, when       *)
(* approx_betweenness is set and the node count exceeds the threshold, the *)
(* sources number clamp(50, sqrt(n) * 10, 500) cut to an integer; in every *)
(* other case the exact computation is done.                               *)
(***************************************************************************)
C7_SourcesChoice ==
    pc = "sources_chosen" =>
        IF bet_k # None THEN k = bet_k
        ELSE IF approx_betweenness /\ n_nodes > max_nodes_for_exact
             THEN IsClampedSqrt(k, n_nodes)
        ELSE k = None

C7_Witness ==
    /\ pc = "sources_chosen"
    /\ bet_k = None
    /\ approx_betweenness
    /\ n_nodes > max_nodes_for_exact
    /\ k > 50
    /\ k < 500
    /\ k * k < 100 * n_nodes

(***************************************************************************)
(* C8: in the rows returned, a node carries community -1 only when every   *)
(* community strategy failed; when one completed, every node carries the   *)
(* id that strategy assigned.                                              *)
(***************************************************************************)
C8_UndeterminedOnlyWhenAllFailed ==
    (pc = "returned" /\ comm_by # "none") =>
        \A i \in DOMAIN nodes_df : nodes_df[i].community # -1

(***************************************************************************)
(* C9: for a graph of exactly one node, and no sample size given,          *)
(* compute_graph_metrics returns one node row with betweenness 0,          *)
(* eigenvector score 1.0 and degree centrality 0.                          *)
(***************************************************************************)
C9_SingleNodeScores ==
    (Len(G) = 1 /\ bet_k = None /\ pc \in {"raised", "returned"}) =>
        /\ pc = "returned"
        /\ Len(nodes_df) = 1
        /\ nodes_df[1].betweenness = "0.0"
        /\ nodes_df[1].eigenvector = "1.0"
        /\ nodes_df[1].degree_centrality = <<0, 1>>

(***************************************************************************)
(* C11: building from any permutation of the table's rows gives the same   *)
(* nodes (with their label and column), the same edges and the same edge   *)
(* weights, for every table, field list and floor.                         *)
(***************************************************************************)
PermuteRows(t, p) == [r \in DOMAIN t |-> t[p[r]]]

NodeSet(g) ==
    {[id |-> g[n].id, label |-> g[n].label, column |-> g[n].column] : n \in DOMAIN g}

\* C11: every permutation of the rows builds the same nodes, edges and weights
C11_RowOrderIrrelevant ==
    pc = "built" =>
        \A p \in Permutations(DOMAIN df) :
            LET H == build_cooccurrence_graph(PermuteRows(df, p), cols, min_count) IN
            /\ NodeSet(H) = NodeSet(G)
            /\ EdgeSet(H) = EdgeSet(G)

C11_Witness ==
    /\ pc = "built"
    /\ Edges(G) # <<>>
    /\ \E p \in Permutations(DOMAIN df) :
          /\ PermuteRows(df, p) # df
          /\ build_cooccurrence_graph(PermuteRows(df, p), cols, min_count) # G

(***************************************************************************)
(* C12: the filtering post-pass is idempotent: run again at the same floor *)
(* on the graph build returned, it leaves nodes, edges and weights as they *)
(* are.                                                                    *)
(***************************************************************************)
C12_FilterIdempotent ==
    pc = "built" => filter_min_count(G, min_count) = G

C12_Witness ==
    /\ pc = "built"
    /\ min_count > 1
    /\ G # <<>>
    /\ G # build_cooccurrence_graph(df, cols, 1)
    /\ filter_min_count(G, min_count) = G

RowIndex(rows, r) == CHOOSE i \in DOMAIN rows : rows[i] = r

NonIncreasing(keys) == \A i, j \in DOMAIN keys : i < j => keys[i] >= keys[j]

TiesKeepOrder(sorted, keys, original) ==
    \A i, j \in DOMAIN sorted :
        (i < j /\ keys[i] = keys[j])
            => RowIndex(original, sorted[i]) < RowIndex(original, sorted[j])

(***************************************************************************)
(* C13: the node rows compute_graph_metrics returns do not increase in     *)
(* weighted degree and the edge rows do not increase in weight, and rows   *)
(* with equal keys stay in the order in which the graph iterates its nodes *)
(* (respectively its edges).                                               *)
(***************************************************************************)
C13_SortedWithStableTies ==
    pc = "returned" =>
        /\ NonIncreasing(KeysDegreeWeighted(nodes_df))
        /\ NonIncreasing(KeysWeight(edges_df))
        /\ TiesKeepOrder(nodes_df, KeysDegreeWeighted(nodes_df),
                         nodes_data(G, bet, eig, node_community))
        /\ TiesKeepOrder(edges_df, KeysWeight(edges_df), edges_data(G))

====
